---- MODULE Spec2Model ----
(***************************************************************************)
(* multistream-select initiator (src/src/multistream.rs) and its client    *)
(* flow (src/src/main.rs).                                                 *)
(*                                                                         *)
(* Bytes are naturals 0..255, strings are sequences of bytes, a u64 is a   *)
(* vector of 64 bits (bit 0 is the least significant), so shifts lose the  *)
(* bits the hardware loses.                                                *)
(***************************************************************************)
EXTENDS Naturals, Integers, Sequences, FiniteSets, TLC

\* ------------------------------------------------------------------ bounds
\* longest candidate list handed to initiate
MaxCandidates == 2
\* most frames an unconstrained peer has sent beyond those initiate has decoded
MaxAhead == 1
\* most raw bytes held by the stream in the varint codec runs
MaxStream == 11
\* most raw bytes a peer puts on the stream in the line codec runs
MaxFrame == 4

\* --------------------------------------------------------- program constants
\* width of the accumulator `value: u64`
U64Bits == 64
\* `for i in 0..10`: the most bytes one varint takes
VarintMaxBytes == 10
\* the continuation flag 0x80
ContFlag == 128
\* '\n'
Newline == 10

\* "/multistream/1.0.0"
MULTISTREAM_PROTOCOL ==
    <<47, 109, 117, 108, 116, 105, 115, 116, 114, 101, 97, 109, 47, 49, 46, 48, 46, 48>>
\* "na"
NA ==
    <<110, 97>>
\* "/tls/1.0.0"
TLS_PROTOCOL ==
    <<47, 116, 108, 115, 47, 49, 46, 48, 46, 48>>
\* "/yamux/1.0.0"
YAMUX_PROTOCOL ==
    <<47, 121, 97, 109, 117, 120, 47, 49, 46, 48, 46, 48>>

\* ------------------------------------------------------------- u64 arithmetic
Pow2(n) ==
    2 ^ n

U64Zero ==
    [k \in 0 .. U64Bits - 1 |-> 0]

\* n as u64, for the naturals the checker can hold (n < 2^31)
U64FromNat(n) ==
    [k \in 0 .. U64Bits - 1 |-> IF k < 31 THEN (n \div Pow2(k)) % 2 ELSE 0]

\* TRUE when the u64 is below 2^31, so that it is a natural the model can count with
U64IsSmall(v) ==
    \A k \in 31 .. U64Bits - 1 : v[k] = 0

RECURSIVE U64LowBits(_, _)
\* the natural held by bits 0..n-1 of v (n <= 31)
U64LowBits(v, n) ==
    IF n = 0 THEN 0 ELSE v[n - 1] * Pow2(n - 1) + U64LowBits(v, n - 1)

U64ToNat(v) ==
    U64LowBits(v, 31)

\* (value >> s) & 0x7f, as a number 0..127; bits past bit 63 read as 0
ShrAnd7f(value, s) ==
    LET bit(j) == IF s + j < U64Bits THEN value[s + j] ELSE 0
    IN  bit(0) + 2 * bit(1) + 4 * bit(2) + 8 * bit(3) + 16 * bit(4) + 32 * bit(5) + 64 * bit(6)

\* (value << 7) | low, low in 0..127: bits 57..63 of value are shifted out
Shl7Or(value, low) ==
    [k \in 0 .. U64Bits - 1 |-> IF k < 7 THEN (low \div Pow2(k)) % 2 ELSE value[k - 7]]

\* ---------------------------------------------------------------- sequences
SubSeqFrom(s, from) ==
    SubSeq(s, from, Len(s))

RECURSIVE Flatten(_)
Flatten(ss) ==
    IF ss = <<>> THEN <<>> ELSE Head(ss) \o Flatten(Tail(ss))

\* ------------------------------------------------------------- varint codec
\* val[0..9] of serialise_varint, as a sequence indexed 1..10
VarintGroups(value) ==
    [g \in 1 .. VarintMaxBytes |->
        IF g = 1 THEN ContFlag + (ShrAnd7f(value, 63) % 2)
        ELSE IF g = VarintMaxBytes THEN ShrAnd7f(value, 0)
        ELSE ContFlag + ShrAnd7f(value, 7 * (VarintMaxBytes - g))]

\* the mutant: the trimming of leading 0x80 groups is left out
serialise_varint_untrimmed(dst, value) ==
    dst \o VarintGroups(value)

\* the mutant: the last group carries the continuation flag like the others
serialise_varint_flagged(dst, value) ==
    LET groups == VarintGroups(value)
        val == [groups EXCEPT ![VarintMaxBytes] = ContFlag + (@ % ContFlag)]
        idx == {i \in 1 .. VarintMaxBytes : val[i] # ContFlag}
    IN  IF idx = {} THEN dst
        ELSE LET first == CHOOSE i \in idx : \A j \in idx : i <= j
             IN  dst \o SubSeq(val, first, VarintMaxBytes)

\* serialise_varint: append val[i..10] for the first i with val[i] != 0x80
serialise_varint(dst, value) ==
    LET val == VarintGroups(value)
        idx == {i \in 1 .. VarintMaxBytes : val[i] # ContFlag}
    IN  IF idx = {} THEN dst
        ELSE LET first == CHOOSE i \in idx : \A j \in idx : i <= j
             IN  dst \o SubSeq(val, first, VarintMaxBytes)

\* results of the decoders: kind is "Ok" or the failure; rest is what the stream
\* still holds after the call
VarintResult(kind, value, rest) ==
    [kind |-> kind, value |-> value, rest |-> rest]

RECURSIVE deserialise_varint_nocheck(_, _, _)
\* the mutant: the test of the first byte against 0x80 is left out
deserialise_varint_nocheck(stream, i, value) ==
    IF i = VarintMaxBytes THEN VarintResult("VarintTooLarge", U64Zero, stream)
    ELSE IF stream = <<>> THEN VarintResult("Io", U64Zero, stream)
    ELSE LET byte == Head(stream)
             next == Shl7Or(value, byte % ContFlag)
         IN  IF byte < ContFlag THEN VarintResult("Ok", next, Tail(stream))
             ELSE deserialise_varint_nocheck(Tail(stream), i + 1, next)

RECURSIVE deserialise_varint_long(_, _, _)
\* the mutant: the loop runs once more than it should
deserialise_varint_long(stream, i, value) ==
    IF i = VarintMaxBytes + 1 THEN VarintResult("VarintTooLarge", U64Zero, stream)
    ELSE IF stream = <<>> THEN VarintResult("Io", U64Zero, stream)
    ELSE LET byte == Head(stream)
             next == Shl7Or(value, byte % ContFlag)
         IN  IF i = 0 /\ byte = ContFlag
             THEN VarintResult("MalformedVarint", U64Zero, Tail(stream))
             ELSE IF byte < ContFlag THEN VarintResult("Ok", next, Tail(stream))
             ELSE deserialise_varint_long(Tail(stream), i + 1, next)

RECURSIVE deserialise_varint_loop(_, _, _)
\* the loop of deserialise_varint from iteration i with accumulator value:
\* read_exact of one byte (Io when the stream has ended), the 0x80 test on
\* the first byte, the accumulation, the return on a clear continuation flag
deserialise_varint_loop(stream, i, value) ==
    IF i = VarintMaxBytes THEN VarintResult("VarintTooLarge", U64Zero, stream)
    ELSE IF stream = <<>> THEN VarintResult("Io", U64Zero, stream)
    ELSE LET byte == Head(stream)
             next == Shl7Or(value, byte % ContFlag)
         IN  IF i = 0 /\ byte = ContFlag
             THEN VarintResult("MalformedVarint", U64Zero, Tail(stream))
             ELSE IF byte < ContFlag THEN VarintResult("Ok", next, Tail(stream))
             ELSE deserialise_varint_loop(Tail(stream), i + 1, next)

deserialise_varint(stream) ==
    deserialise_varint_loop(stream, 0, U64Zero)

\* -------------------------------------------------------------- line codec
\* String::from_utf8 on a byte sequence: the well-formed UTF-8 sequences
\* the length of the well-formed UTF-8 sequence that starts at b[k], 0 when
\* none does
Utf8SeqLen(b, k) ==
    LET cont(j) == j <= Len(b) /\ b[j] >= 128 /\ b[j] <= 191
        in(j, lo, hi) == j <= Len(b) /\ b[j] >= lo /\ b[j] <= hi
        h == b[k]
    IN  IF h < 128 THEN 1
        ELSE IF h >= 194 /\ h <= 223 THEN (IF cont(k + 1) THEN 2 ELSE 0)
        ELSE IF h = 224 THEN (IF in(k + 1, 160, 191) /\ cont(k + 2) THEN 3 ELSE 0)
        ELSE IF h = 237 THEN (IF in(k + 1, 128, 159) /\ cont(k + 2) THEN 3 ELSE 0)
        ELSE IF h >= 225 /\ h <= 239 THEN (IF cont(k + 1) /\ cont(k + 2) THEN 3 ELSE 0)
        ELSE IF h = 240
             THEN (IF in(k + 1, 144, 191) /\ cont(k + 2) /\ cont(k + 3) THEN 4 ELSE 0)
        ELSE IF h >= 241 /\ h <= 243
             THEN (IF cont(k + 1) /\ cont(k + 2) /\ cont(k + 3) THEN 4 ELSE 0)
        ELSE IF h = 244
             THEN (IF in(k + 1, 128, 143) /\ cont(k + 2) /\ cont(k + 3) THEN 4 ELSE 0)
        ELSE 0

\* String::from_utf8 succeeds: every byte starts a well-formed sequence or is
\* a continuation byte of the sequence started up to three bytes before it
IsUtf8(b) ==
    \A k \in 1 .. Len(b) :
        IF b[k] >= 128 /\ b[k] <= 191
        THEN \E j \in 1 .. 3 : k - j >= 1 /\ Utf8SeqLen(b, k - j) > j
        ELSE Utf8SeqLen(b, k) > 0

\* the mutant: the length prefix counts the line without its newline
serialise_varint_line_short(dst, line) ==
    [kind |-> "Ok",
     dst |-> (serialise_varint(dst, U64FromNat(Len(line))) \o line) \o <<Newline>>]

\* the mutant: the buffer is emptied before the line goes in
serialise_varint_line_replace(dst, line) ==
    [kind |-> "Ok",
     dst |-> (serialise_varint(<<>>, U64FromNat(Len(line) + 1)) \o line) \o <<Newline>>]

\* serialise_varint_line: varint(len + 1), the bytes of the line, "\n", appended
\* to dst. The conversion of len + 1 from usize to u64 cannot fail.
serialise_varint_line(dst, line) ==
    [kind |-> "Ok",
     dst |-> (serialise_varint(dst, U64FromNat(Len(line) + 1)) \o line) \o <<Newline>>]

LineResult(kind, line, rest) ==
    [kind |-> kind, line |-> line, rest |-> rest]

\* the mutant: the last byte is dropped without being compared with "\n"
deserialise_varint_line_unchecked(stream) ==
    LET v == deserialise_varint(stream)
    IN  IF v.kind # "Ok" THEN LineResult(v.kind, <<>>, v.rest)
        ELSE IF v.value = U64Zero THEN LineResult("EmptyLine", <<>>, v.rest)
        ELSE IF ~U64IsSmall(v.value) THEN LineResult("HugeLength", <<>>, v.rest)
        ELSE LET len == U64ToNat(v.value)
             IN  IF Len(v.rest) < len THEN LineResult("Io", <<>>, <<>>)
                 ELSE LET buf == SubSeq(v.rest, 1, len)
                          rest == SubSeqFrom(v.rest, len + 1)
                          body == SubSeq(buf, 1, len - 1)
                      IN  IF ~IsUtf8(body) THEN LineResult("InvalidUtf8", <<>>, rest)
                          ELSE LineResult("Ok", body, rest)

\* the mutant: the newline is left on the stream (len - 1 bytes are read)
deserialise_varint_line_behind(stream) ==
    LET v == deserialise_varint(stream)
    IN  IF v.kind # "Ok" THEN LineResult(v.kind, <<>>, v.rest)
        ELSE IF v.value = U64Zero THEN LineResult("EmptyLine", <<>>, v.rest)
        ELSE IF ~U64IsSmall(v.value) THEN LineResult("HugeLength", <<>>, v.rest)
        ELSE LET len == U64ToNat(v.value)
             IN  IF Len(v.rest) < len THEN LineResult("Io", <<>>, <<>>)
                 ELSE LET body == SubSeq(v.rest, 1, len - 1)
                          rest == SubSeqFrom(v.rest, len)
                      IN  IF ~IsUtf8(body) THEN LineResult("InvalidUtf8", <<>>, rest)
                          ELSE LineResult("Ok", body, rest)

\* deserialise_varint_line. A read_exact that meets the end of the stream fails
\* with Io and leaves nothing in the stream. A length of 2^31 or more is kept
\* apart as HugeLength: no stream of the model holds that many bytes.
deserialise_varint_line(stream) ==
    LET v == deserialise_varint(stream)
    IN  IF v.kind # "Ok" THEN LineResult(v.kind, <<>>, v.rest)
        ELSE IF v.value = U64Zero THEN LineResult("EmptyLine", <<>>, v.rest)
        ELSE IF ~U64IsSmall(v.value) THEN LineResult("HugeLength", <<>>, v.rest)
        ELSE LET len == U64ToNat(v.value)
             IN  IF Len(v.rest) < len THEN LineResult("Io", <<>>, <<>>)
                 ELSE LET buf == SubSeq(v.rest, 1, len)
                          rest == SubSeqFrom(v.rest, len + 1)
                          body == SubSeq(buf, 1, len - 1)
                      IN  IF buf[len] # Newline THEN LineResult("MissingTerminator", <<>>, rest)
                          ELSE IF ~IsUtf8(body) THEN LineResult("InvalidUtf8", <<>>, rest)
                          ELSE LineResult("Ok", body, rest)

\* ------------------------------------------------------------------- state
VARIABLES
    protocols,          \* initiate: the caller's candidate list
    pc,                 \* initiate: where the call stands
    i,                  \* initiate: the round, index into protocols (from 0)
    handshake_message,  \* initiate: the write buffer
    resp,               \* initiate: the line last decoded
    result,             \* initiate: what the call returned
    tx,                 \* stream: the buffers written, one entry per write_all
    rx,                 \* stream: the bytes the peer sent and nobody read yet
    closed,             \* stream: the peer closed its side
    lines,              \* the lines decoded from the stream so far, in order
    nreads,             \* the deserialise_varint_line calls that have returned
    nwrites,            \* the write_all calls made, failed ones included
    rxlog,              \* every byte the peer has sent, read or not
    peer,               \* the responder at the other end of the stream
    codec,              \* one run of the varint or line codec on its own
    client              \* try_negotiate: where the client flow stands

vars ==
    <<protocols, pc, i, handshake_message, resp, result, tx, rx, closed, lines, nreads, nwrites,
      rxlog, peer, codec, client>>

initiateVars ==
    <<protocols, pc, i, handshake_message, resp, result, tx, rx, closed, lines, nreads, nwrites,
      rxlog, peer, client>>

ClientIdle ==
    [stage |-> "none"]

NoResult ==
    [kind |-> "None"]

\* ---------------------------------------------- the varint codec on its own
\* the values handed to serialise_varint: every power of two, every 2^k - 1,
\* and the top bit with low bits
U64Bit(k) ==
    [j \in 0 .. U64Bits - 1 |-> IF j = k THEN 1 ELSE 0]

U64Ones(k) ==
    [j \in 0 .. U64Bits - 1 |-> IF j < k THEN 1 ELSE 0]

TestValues ==
    {U64Bit(k) : k \in 0 .. U64Bits - 1} \cup {U64Ones(k) : k \in 0 .. U64Bits}
        \cup {[U64Bit(63) EXCEPT ![0] = 1], [U64Ones(64) EXCEPT ![62] = 0]}

\* the bytes a peer may put first on the stream, and after the first
FirstBytes ==
    {0, 1, 127, 128, 129, 130, 255}

RestBytes ==
    {0, 127, 128, 255}

CodecIdle ==
    [phase |-> "idle", src |-> "none", value |-> U64Zero, input |-> <<>>,
     res |-> VarintResult("None", U64Zero, <<>>)]

InitVarint ==
    /\ protocols = <<>>
    /\ pc = "idle"
    /\ i = 0
    /\ handshake_message = <<>>
    /\ resp = <<>>
    /\ result = NoResult
    /\ tx = <<>>
    /\ rx = <<>>
    /\ closed = FALSE
    /\ lines = <<>>
    /\ nreads = 0
    /\ nwrites = 0
    /\ rxlog = <<>>
    /\ peer = [mode |-> "none"]
    /\ codec = [CodecIdle EXCEPT !.phase = "input"]
    /\ client = ClientIdle

\* the peer puts one more byte on the stream; it sends at most one byte past
\* the first byte whose continuation flag is clear
FeedByte(b) ==
    /\ codec.phase = "input"
    /\ codec.src \in {"none", "peer"}
    /\ Len(codec.input) < MaxStream
    /\ \A k \in 1 .. Len(codec.input) - 1 : codec.input[k] >= ContFlag
    /\ b \in (IF codec.input = <<>> THEN FirstBytes ELSE RestBytes)
    /\ codec' = [codec EXCEPT !.src = "peer", !.input = Append(@, b)]
    /\ UNCHANGED initiateVars

\* serialise_varint(&mut dst, value) on an empty dst; the stream then holds dst
EncodeVarint(value) ==
    /\ codec.phase = "input"
    /\ codec.src = "none"
    /\ codec' = [codec EXCEPT !.src = "encoder", !.value = value,
                              !.input = serialise_varint(<<>>, value)]
    /\ UNCHANGED initiateVars

\* deserialise_varint(stream) on a stream that ends after the bytes it holds
DecodeVarint ==
    /\ codec.phase = "input"
    /\ codec.src # "none"
    /\ codec' = [codec EXCEPT !.phase = "decoded", !.res = deserialise_varint(codec.input)]
    /\ UNCHANGED initiateVars

NextVarint ==
    \/ \E b \in FirstBytes \cup RestBytes : FeedByte(b)
    \/ \E value \in TestValues : EncodeVarint(value)
    \/ DecodeVarint

SpecVarint ==
    InitVarint /\ [][NextVarint]_vars

\* ------------------------------------------------ the line codec on its own
\* a line of n bytes "a"
LongLine(n) ==
    [k \in 1 .. n |-> 97]

\* the strings handed to serialise_varint_line: the empty string, short ones,
\* a non-ASCII one, and the lengths around the second byte of the length prefix
LineStrings ==
    {<<>>, <<97>>, NA, MULTISTREAM_PROTOCOL, <<195, 169>>,
     LongLine(126), LongLine(127), LongLine(128)}

\* what the caller's buffer holds before a line is encoded into it
PriorBuffers ==
    {<<>>, <<7>>, <<128, 0, 10>>}

\* the bytes a peer puts on the stream: lengths, the newline, a letter, a
\* byte with the continuation flag, a byte that is no UTF-8
FrameBytes ==
    {0, 1, 2, 3, 10, 97, 128, 255}

LineCodecInit(prior) ==
    [src |-> "none", prior |-> prior, buf |-> prior, before |-> <<>>, encoded |-> <<>>,
     ends |-> <<>>, results |-> <<>>]

\* the stream the decoder reads: what was put behind the prior contents
LineInput ==
    SubSeqFrom(codec.buf, Len(codec.prior) + 1)

\* what the stream still holds after the decodings made so far
LineRest ==
    IF codec.results = <<>> THEN LineInput ELSE codec.results[Len(codec.results)].rest

InitLine ==
    /\ protocols = <<>>
    /\ pc = "idle"
    /\ i = 0
    /\ handshake_message = <<>>
    /\ resp = <<>>
    /\ result = NoResult
    /\ tx = <<>>
    /\ rx = <<>>
    /\ closed = FALSE
    /\ lines = <<>>
    /\ nreads = 0
    /\ nwrites = 0
    /\ rxlog = <<>>
    /\ peer = [mode |-> "none"]
    /\ codec \in {LineCodecInit(prior) : prior \in PriorBuffers}
    /\ client = ClientIdle

\* serialise_varint_line(&mut buf, line), at most twice into the same buffer
EncodeLine(line) ==
    /\ codec.src \in {"none", "encoder"}
    /\ codec.results = <<>>
    /\ Len(codec.encoded) < 2
    /\ LET m == serialise_varint_line(codec.buf, line)
       IN  /\ m.kind = "Ok"
           /\ codec' = [codec EXCEPT !.src = "encoder", !.before = codec.buf, !.buf = m.dst,
                                     !.encoded = Append(@, line), !.ends = Append(@, Len(m.dst))]
    /\ UNCHANGED initiateVars

\* the peer puts one more byte on the stream
FeedFrameByte(b) ==
    /\ codec.src \in {"none", "peer"}
    /\ codec.prior = <<>>
    /\ codec.results = <<>>
    /\ Len(codec.buf) < MaxFrame
    /\ codec' = [codec EXCEPT !.src = "peer", !.buf = Append(@, b)]
    /\ UNCHANGED initiateVars

\* deserialise_varint_line(stream) on a stream that ends after the bytes it
\* holds; a second call follows a first that returned a line
DecodeLine ==
    /\ codec.src # "none"
    /\ Len(codec.results) < 2
    /\ codec.results # <<>> => codec.results[1].kind = "Ok"
    /\ codec' = [codec EXCEPT !.results = Append(@, deserialise_varint_line(LineRest))]
    /\ UNCHANGED initiateVars

NextLine ==
    \/ \E line \in LineStrings : EncodeLine(line)
    \/ \E b \in FrameBytes : FeedFrameByte(b)
    \/ DecodeLine

SpecLine ==
    InitLine /\ [][NextLine]_vars

\* ------------------------------------------------------------------ initiate
\* "/a/1.0.0" and "/b/1.0.0"
ProtoA ==
    <<47, 97, 47, 49, 46, 48, 46, 48>>

ProtoB ==
    <<47, 98, 47, 49, 46, 48, 46, 48>>

\* the identifiers a caller lists as candidates
CandidateSet ==
    {ProtoA, NA, MULTISTREAM_PROTOCOL}

RECURSIVE SeqsUpTo(_, _)
SeqsUpTo(S, n) ==
    IF n = 0 THEN {<<>>}
    ELSE LET shorter == SeqsUpTo(S, n - 1)
         IN  shorter \cup {Append(q, x) : q \in {r \in shorter : Len(r) = n - 1}, x \in S}

CandidateLists ==
    SeqsUpTo(CandidateSet, MaxCandidates)

\* the lines an unconstrained responder answers with
ResponseLines ==
    CandidateSet \cup {ProtoB}

\* frames that are no well-formed line: a leading 0x80, a declared length of
\* zero, a line without its newline, a line cut short, bytes that are no UTF-8
RawFrames ==
    {<<128, 2, 10>>, <<0>>, <<2, 97, 97>>, <<3, 97>>, <<2, 255, 10>>}

Selected(index) ==
    [kind |-> "Selected", index |-> index, err |-> "none"]

NoMatch ==
    [kind |-> "NoMatch", index |-> 0, err |-> "none"]

Failed(err) ==
    [kind |-> "Err", index |-> 0, err |-> err]

Init ==
    /\ protocols \in CandidateLists
    /\ pc = "entry"
    /\ i = 0
    /\ handshake_message = <<>>
    /\ resp = <<>>
    /\ result = NoResult
    /\ tx = <<>>
    /\ rx = <<>>
    /\ closed = FALSE
    /\ lines = <<>>
    /\ nreads = 0
    /\ nwrites = 0
    /\ rxlog = <<>>
    /\ peer \in {[mode |-> "conforming", supported |-> S, seen |-> 0, sent |-> 0] :
                    S \in SUBSET CandidateSet}
            \cup {[mode |-> "arbitrary", supported |-> {}, seen |-> 0, sent |-> 0]}
    /\ codec = CodecIdle
    /\ client = ClientIdle

\* the mutant: the version line is written before the list is tested
InitiateEntry_late ==
    /\ pc = "entry"
    /\ LET m == serialise_varint_line(<<>>, MULTISTREAM_PROTOCOL)
       IN  IF protocols = <<>>
           THEN /\ tx' = Append(tx, m.dst)
                /\ result' = Failed("EmptyCandidateList")
                /\ pc' = "done"
                /\ UNCHANGED handshake_message
           ELSE /\ handshake_message' = m.dst
                /\ pc' = "write"
                /\ UNCHANGED <<result, tx>>
    /\ UNCHANGED <<protocols, i, resp, rx, closed, lines, nreads, nwrites, rxlog, peer, codec, client>>

\* lines 146-155: the test of the empty list, then the version line goes into
\* the write buffer
InitiateEntry ==
    /\ pc = "entry"
    /\ IF protocols = <<>>
       THEN /\ result' = Failed("EmptyCandidateList")
            /\ pc' = "done"
            /\ UNCHANGED handshake_message
       ELSE LET m == serialise_varint_line(<<>>, MULTISTREAM_PROTOCOL)
            IN  IF m.kind = "Ok"
                THEN /\ handshake_message' = m.dst
                     /\ pc' = "write"
                     /\ UNCHANGED result
                ELSE /\ result' = Failed(m.kind)
                     /\ pc' = "done"
                     /\ UNCHANGED handshake_message
    /\ UNCHANGED <<protocols, i, resp, tx, rx, closed, lines, nreads, nwrites, rxlog, peer, codec, client>>

\* the mutant: the buffer is not cleared after the write
RoundWrite_noclear ==
    /\ pc = "write"
    /\ LET m == serialise_varint_line(handshake_message, protocols[i + 1])
       IN  /\ tx' = Append(tx, m.dst)
           /\ nwrites' = nwrites + 1
           /\ handshake_message' = m.dst
           /\ pc' = "read_response"
    /\ UNCHANGED <<protocols, i, resp, result, rx, closed, lines, nreads, rxlog, peer, codec, client>>

\* the mutant: the next candidate is proposed before the reply is read
RoundWrite_pipelined ==
    /\ pc = "write"
    /\ LET m == serialise_varint_line(handshake_message, protocols[i + 1])
       IN  /\ tx' = Append(tx, m.dst)
           /\ nwrites' = nwrites + 1
           /\ handshake_message' = <<>>
           /\ IF i + 1 < Len(protocols)
              THEN pc' = "write" /\ i' = i + 1
              ELSE pc' = "read_response" /\ i' = i
    /\ UNCHANGED <<protocols, resp, result, rx, closed, lines, nreads, rxlog, peer, codec, client>>

\* lines 158-160: the candidate of round i is appended to the buffer, the
\* buffer is written in one write_all and cleared
RoundWrite ==
    /\ pc = "write"
    /\ LET m == serialise_varint_line(handshake_message, protocols[i + 1])
       IN  IF m.kind = "Ok"
           THEN /\ tx' = Append(tx, m.dst)
                /\ nwrites' = nwrites + 1
                /\ handshake_message' = <<>>
                /\ pc' = "read_response"
                /\ UNCHANGED result
           ELSE /\ result' = Failed(m.kind)
                /\ pc' = "done"
                /\ UNCHANGED <<tx, nwrites, handshake_message>>
    /\ UNCHANGED <<protocols, i, resp, rx, closed, lines, nreads, rxlog, peer, codec, client>>

\* line 159: write_all fails on a stream the peer has closed
RoundWriteFails ==
    /\ pc = "write"
    /\ closed
    /\ LET m == serialise_varint_line(handshake_message, protocols[i + 1])
       IN  handshake_message' = m.dst
    /\ nwrites' = nwrites + 1
    /\ result' = Failed("Io")
    /\ pc' = "done"
    /\ UNCHANGED <<protocols, i, resp, tx, rx, closed, lines, nreads, rxlog, peer, codec, client>>

\* a deserialise_varint_line call returns once the stream holds the frame, or
\* has ended
ReadReturns(r) ==
    r.kind \in {"Io", "HugeLength"} => closed

\* the mutant: an empty line is taken for the end of the negotiation
ReadFailure_swallow(r) ==
    IF r.kind = "EmptyLine" THEN NoMatch
    ELSE Failed(IF r.kind = "HugeLength" THEN "Io" ELSE r.kind)

\* the ? of lines 162 and 171: the error of the read is the result of the call
ReadFailure(r) ==
    Failed(IF r.kind = "HugeLength" THEN "Io" ELSE r.kind)

\* the mutant: the index returned is one too high
Decide_next_index(reply) ==
    IF reply = protocols[i + 1]
    THEN /\ result' = Selected(i + 1)
         /\ pc' = "done"
         /\ UNCHANGED i
    ELSE IF reply # NA
    THEN /\ result' = Failed("UnexpectedResponse")
         /\ pc' = "done"
         /\ UNCHANGED i
    ELSE IF i + 1 < Len(protocols)
    THEN /\ i' = i + 1
         /\ pc' = "write"
         /\ UNCHANGED result
    ELSE /\ result' = NoMatch
         /\ pc' = "done"
         /\ UNCHANGED i

\* the mutant: any reply that is no match counts as a rejection
Decide_lenient(reply) ==
    IF reply = protocols[i + 1]
    THEN /\ result' = Selected(i)
         /\ pc' = "done"
         /\ UNCHANGED i
    ELSE IF i + 1 < Len(protocols)
    THEN /\ i' = i + 1
         /\ pc' = "write"
         /\ UNCHANGED result
    ELSE /\ result' = NoMatch
         /\ pc' = "done"
         /\ UNCHANGED i

\* the mutant: after the last "na" one more line is read
Decide_extra_read(reply) ==
    IF reply = protocols[i + 1]
    THEN /\ result' = Selected(i)
         /\ pc' = "done"
         /\ UNCHANGED i
    ELSE IF reply # NA
    THEN /\ result' = Failed("UnexpectedResponse")
         /\ pc' = "done"
         /\ UNCHANGED i
    ELSE IF i + 1 < Len(protocols)
    THEN /\ i' = i + 1
         /\ pc' = "write"
         /\ UNCHANGED result
    ELSE IF Len(lines) = Len(protocols)
    THEN /\ pc' = "read_reply"
         /\ UNCHANGED <<i, result>>
    ELSE /\ result' = NoMatch
         /\ pc' = "done"
         /\ UNCHANGED i

\* lines 174-186 on the reply to round i: a match returns Some(i), anything
\* but "na" fails, "na" goes to the next round or, after the last, to None
Decide(reply) ==
    IF reply = protocols[i + 1]
    THEN /\ result' = Selected(i)
         /\ pc' = "done"
         /\ UNCHANGED i
    ELSE IF reply # NA
    THEN /\ result' = Failed("UnexpectedResponse")
         /\ pc' = "done"
         /\ UNCHANGED i
    ELSE IF i + 1 < Len(protocols)
    THEN /\ i' = i + 1
         /\ pc' = "write"
         /\ UNCHANGED result
    ELSE /\ result' = NoMatch
         /\ pc' = "done"
         /\ UNCHANGED i

\* the mutant: the comparison with the version string is left out
VersionOk_any(line) ==
    TRUE

\* line 164: the first line has to be the version string, exactly
VersionOk(line) ==
    line = MULTISTREAM_PROTOCOL

\* lines 162-169: the first line of the round is decoded; in round 0 it has
\* to be the version string and the reply is still to come
ReadResponse ==
    /\ pc = "read_response"
    /\ LET r == deserialise_varint_line(rx)
       IN  /\ ReadReturns(r)
           /\ rx' = r.rest
           /\ nreads' = nreads + 1
           /\ IF r.kind # "Ok"
              THEN /\ result' = ReadFailure(r)
                   /\ pc' = "done"
                   /\ UNCHANGED <<i, resp, lines>>
              ELSE /\ resp' = r.line
                   /\ lines' = Append(lines, r.line)
                   /\ IF i = 0
                      THEN IF ~VersionOk(r.line)
                           THEN /\ result' = Failed("UnexpectedVersion")
                                /\ pc' = "done"
                                /\ UNCHANGED i
                           ELSE /\ pc' = "read_reply"
                                /\ UNCHANGED <<i, result>>
                      ELSE Decide(r.line)
    /\ UNCHANGED <<protocols, handshake_message, tx, closed, nwrites, rxlog, peer, codec, client>>

\* line 171 and lines 174-186: in round 0 a second line is decoded, the reply
\* to the first candidate
ReadReply ==
    /\ pc = "read_reply"
    /\ LET r == deserialise_varint_line(rx)
       IN  /\ ReadReturns(r)
           /\ rx' = r.rest
           /\ nreads' = nreads + 1
           /\ IF r.kind # "Ok"
              THEN /\ result' = ReadFailure(r)
                   /\ pc' = "done"
                   /\ UNCHANGED <<i, resp, lines>>
              ELSE /\ resp' = r.line
                   /\ lines' = Append(lines, r.line)
                   /\ Decide(r.line)
    /\ UNCHANGED <<protocols, handshake_message, tx, closed, nwrites, rxlog, peer, codec, client>>

\* ------------------------------------------------------------- the responder
\* the conforming responder: it decodes the next line the initiator wrote,
\* echoes the version line, and answers a proposal with the proposal itself
\* when it supports it and with "na" otherwise
ConformingRespond ==
    /\ peer.mode = "conforming"
    /\ LET unread == SubSeqFrom(Flatten(tx), peer.seen + 1)
           l == deserialise_varint_line(unread)
           reply == IF peer.sent = 0 THEN MULTISTREAM_PROTOCOL
                    ELSE IF l.line \in peer.supported THEN l.line
                    ELSE NA
       IN  /\ l.kind = "Ok"
           /\ peer.sent = 0 => l.line = MULTISTREAM_PROTOCOL
           /\ rx' = serialise_varint_line(rx, reply).dst
           /\ rxlog' = serialise_varint_line(rxlog, reply).dst
           /\ peer' = [peer EXCEPT !.seen = @ + (Len(unread) - Len(l.rest)), !.sent = @ + 1]
    /\ UNCHANGED <<protocols, pc, i, handshake_message, resp, result, tx, closed, lines, nreads, nwrites,
                   codec, client>>

\* an unconstrained responder sends a line, asked for or not
PeerSendLine(line) ==
    /\ peer.mode = "arbitrary"
    /\ ~closed
    /\ peer.sent - Len(lines) < MaxAhead
    /\ rx' = serialise_varint_line(rx, line).dst
    /\ rxlog' = serialise_varint_line(rxlog, line).dst
    /\ peer' = [peer EXCEPT !.sent = @ + 1]
    /\ UNCHANGED <<protocols, pc, i, handshake_message, resp, result, tx, closed, lines, nreads, nwrites,
                   codec, client>>

\* an unconstrained responder sends bytes that are no well-formed line
PeerSendRaw(frame) ==
    /\ peer.mode = "arbitrary"
    /\ ~closed
    /\ peer.sent - Len(lines) < MaxAhead
    /\ rx' = rx \o frame
    /\ rxlog' = rxlog \o frame
    /\ peer' = [peer EXCEPT !.sent = @ + 1]
    /\ UNCHANGED <<protocols, pc, i, handshake_message, resp, result, tx, closed, lines, nreads, nwrites,
                   codec, client>>

\* an unconstrained responder closes the stream
PeerClose ==
    /\ peer.mode = "arbitrary"
    /\ ~closed
    /\ closed' = TRUE
    /\ UNCHANGED <<protocols, pc, i, handshake_message, resp, result, tx, rx, lines, nreads, nwrites, rxlog, peer, codec, client>>

Next ==
    \/ InitiateEntry
    \/ RoundWrite
    \/ RoundWriteFails
    \/ ReadResponse
    \/ ReadReply
    \/ ConformingRespond
    \/ \E line \in ResponseLines : PeerSendLine(line)
    \/ \E frame \in RawFrames : PeerSendRaw(frame)
    \/ PeerClose

Spec ==
    Init /\ [][Next]_vars

\* the future is polled: the code before the first write runs
EntryRuns ==
    /\ pc = "entry"
    /\ pc' \in {"write", "done"}

\* a write_all that was started comes back, with success or with an error
WriteCompletes ==
    /\ pc = "write"
    /\ nwrites' = nwrites + 1

\* a deserialise_varint_line that was started comes back: the responder
\* delivers the line the call waits for, or the stream ends
ReadCompletes ==
    /\ pc \in {"read_response", "read_reply"}
    /\ nreads' = nreads + 1

\* the call is polled, no write hangs for ever, and the responder does not
\* leave a read waiting for ever
SpecLive ==
    /\ Init
    /\ [][Next]_vars
    /\ WF_pc(EntryRuns)
    /\ WF_nwrites(WriteCompletes)
    /\ WF_nreads(ReadCompletes)

\* ------------------------------------------------------------ try_negotiate
\* what a conforming responder of the client flow may support
ClientProtocols ==
    {TLS_PROTOCOL, YAMUX_PROTOCOL}

\* what the TLS handshake can come to: the context or the stream cannot be
\* made, connect() fails, or it succeeds with some ALPN protocol or none
TlsOutcomes ==
    {"setup_failed", "connect_failed", "alpn_none", "alpn_other", "alpn_libp2p"}

ClientAt(stage, tls_neg, tls, yamux_neg, error) ==
    [stage |-> stage, tls_neg |-> tls_neg, tls |-> tls, yamux_neg |-> yamux_neg, error |-> error]

\* the mutant: a result of None is let through
negotiate_multistream_lax(res) ==
    IF res.kind = "Err" THEN res.err ELSE "none"

\* negotiate_multistream on the result of initiate: the error of an Err (the ?
\* of line 34), AddrNotAvailable for None, "none" when it returns Ok(())
negotiate_multistream(res) ==
    IF res.kind = "Err" THEN res.err
    ELSE IF res.kind = "NoMatch" THEN "AddrNotAvailable"
    ELSE "none"

InitClient ==
    /\ protocols = <<>>
    /\ pc = "idle"
    /\ i = 0
    /\ handshake_message = <<>>
    /\ resp = <<>>
    /\ result = NoResult
    /\ tx = <<>>
    /\ rx = <<>>
    /\ closed = FALSE
    /\ lines = <<>>
    /\ nreads = 0
    /\ nwrites = 0
    /\ rxlog = <<>>
    /\ peer \in {[mode |-> "conforming", supported |-> S, seen |-> 0, sent |-> 0] :
                    S \in SUBSET ClientProtocols}
            \cup {[mode |-> "arbitrary", supported |-> {}, seen |-> 0, sent |-> 0]}
    /\ codec = CodecIdle
    /\ client = ClientAt("connect", NoResult, "not_started", NoResult, "none")

\* lines 80-84: connect() failed and try_negotiate returns its error
ConnectFails ==
    /\ client.stage = "connect"
    /\ client' = [client EXCEPT !.stage = "failed", !.error = "connect"]
    /\ UNCHANGED <<protocols, pc, i, handshake_message, resp, result, tx, rx, closed, lines, nreads,
                   nwrites, rxlog, peer, codec>>

\* lines 80-84: the connection is there and initiate is called on it with
\* the one candidate "/tls/1.0.0"
Connect ==
    /\ client.stage = "connect"
    /\ client' = [client EXCEPT !.stage = "negotiate_tls"]
    /\ protocols' = <<TLS_PROTOCOL>>
    /\ pc' = "entry"
    /\ UNCHANGED <<i, handshake_message, resp, result, tx, rx, closed, lines, nreads, nwrites, rxlog,
                   peer, codec>>

\* lines 34-44 and the ? of lines 84 and 88: initiate has returned; an error
\* ends try_negotiate, Ok(()) lets it go on to the handshake or to its end
NegotiateReturns ==
    /\ client.stage \in {"negotiate_tls", "negotiate_yamux"}
    /\ pc = "done"
    /\ LET err == negotiate_multistream(result)
           first == client.stage = "negotiate_tls"
           seen == IF first THEN [client EXCEPT !.tls_neg = result]
                   ELSE [client EXCEPT !.yamux_neg = result]
       IN  client' = IF err # "none" THEN [seen EXCEPT !.stage = "failed", !.error = err]
                     ELSE IF first THEN [seen EXCEPT !.stage = "tls"]
                     ELSE [seen EXCEPT !.stage = "ok"]
    /\ pc' = "idle"
    /\ UNCHANGED <<protocols, i, handshake_message, resp, result, tx, rx, closed, lines, nreads,
                   nwrites, rxlog, peer, codec>>

\* lines 47-77 and line 88: the handshake on the stream; when it ends with
\* ALPN "libp2p" initiate is called on the TLS stream, a stream of its own,
\* with the one candidate "/yamux/1.0.0"
TlsHandshake(outcome) ==
    /\ client.stage = "tls"
    /\ outcome \in {"alpn_none", "alpn_other", "alpn_libp2p"} => ~closed
    /\ IF outcome = "alpn_libp2p"
       THEN /\ client' = [client EXCEPT !.stage = "negotiate_yamux", !.tls = outcome]
            /\ protocols' = <<YAMUX_PROTOCOL>>
            /\ pc' = "entry"
            /\ i' = 0
            /\ handshake_message' = <<>>
            /\ resp' = <<>>
            /\ result' = NoResult
            /\ tx' = <<>>
            /\ rx' = <<>>
            /\ rxlog' = <<>>
            /\ lines' = <<>>
            /\ nreads' = 0
            /\ nwrites' = 0
            /\ peer' = [peer EXCEPT !.seen = 0, !.sent = 0]
       ELSE /\ client' = [client EXCEPT !.stage = "failed", !.tls = outcome,
                                        !.error = IF outcome \in {"alpn_none", "alpn_other"}
                                                  THEN "InvalidData" ELSE "Other"]
            /\ UNCHANGED <<protocols, pc, i, handshake_message, resp, result, tx, rx, rxlog, lines,
                           nreads, nwrites, peer>>
    /\ UNCHANGED <<closed, codec>>

NextClient ==
    \/ ConnectFails
    \/ Connect
    \/ InitiateEntry
    \/ RoundWrite
    \/ RoundWriteFails
    \/ ReadResponse
    \/ ReadReply
    \/ NegotiateReturns
    \/ \E outcome \in TlsOutcomes : TlsHandshake(outcome)
    \/ ConformingRespond
    \/ \E line \in ResponseLines : PeerSendLine(line)
    \/ \E frame \in RawFrames : PeerSendRaw(frame)
    \/ PeerClose

SpecClient ==
    InitClient /\ [][NextClient]_vars

\* ------------------------------------------------- claims on the varint codec
\* the bytes the decoder took from the stream
CodecConsumed ==
    SubSeq(codec.input, 1, Len(codec.input) - Len(codec.res.rest))

CodecDecoded ==
    codec.phase = "decoded"

\* the first ten bytes of the stream all carry the continuation flag
TenContinuationBytes ==
    /\ Len(codec.input) >= VarintMaxBytes
    /\ \A k \in 1 .. VarintMaxBytes : codec.input[k] >= ContFlag

\* C7: decoding the bytes serialise_varint produced for v returns v and takes
\* all of them, and no byte sequence the decoder accepts as v is shorter than
\* the encoding of v.
C7_VarintRoundTrip ==
    /\ (CodecDecoded /\ codec.src = "encoder") =>
            /\ codec.res.kind = "Ok"
            /\ codec.res.value = codec.value
            /\ codec.res.rest = <<>>
    /\ (CodecDecoded /\ codec.res.kind = "Ok") =>
            Len(serialise_varint(<<>>, codec.res.value)) <= Len(CodecConsumed)

\* a value with bit 63 set went through the encoder and the decoder, ten bytes long
C7_Witness ==
    /\ CodecDecoded
    /\ codec.src = "encoder"
    /\ codec.value[63] = 1
    /\ codec.value[0] = 1
    /\ Len(codec.input) = VarintMaxBytes
    /\ codec.res.kind = "Ok"

\* C8: every byte sequence the decoder accepts, returning v, is the encoding
\* of v.
C8_AcceptedIsMinimal ==
    (CodecDecoded /\ codec.res.kind = "Ok") =>
        serialise_varint(<<>>, codec.res.value) = CodecConsumed

\* C9 as claimed: ten bytes that all carry the continuation flag fail with
\* VarintTooLarge.
C9_TenContinuationBytesTooLarge ==
    (CodecDecoded /\ TenContinuationBytes) => codec.res.kind = "VarintTooLarge"

\* C9 as amended: ten bytes that all carry the continuation flag, the first of
\* them not exactly 0x80, fail with VarintTooLarge; with a first byte of 0x80
\* the failure is MalformedVarint.
C9_TenContinuationBytesRejected ==
    (CodecDecoded /\ TenContinuationBytes) =>
        codec.res.kind = (IF codec.input[1] = ContFlag THEN "MalformedVarint"
                          ELSE "VarintTooLarge")

C9_Witness ==
    /\ CodecDecoded
    /\ TenContinuationBytes
    /\ codec.input[1] = 255
    /\ codec.res.kind = "VarintTooLarge"

\* C10: a stream whose first byte is 0x80 fails with MalformedVarint whatever
\* follows, and only that one byte has been taken from the stream.
C10_LeadingZeroGroupRejected ==
    (CodecDecoded /\ codec.input # <<>> /\ codec.input[1] = ContFlag) =>
        /\ codec.res.kind = "MalformedVarint"
        /\ codec.res.rest = Tail(codec.input)

C10_Witness ==
    /\ CodecDecoded
    /\ Len(codec.input) >= 3
    /\ codec.input[1] = ContFlag
    /\ codec.input[2] = 0
    /\ codec.res.kind = "MalformedVarint"

\* ---------------------------------------------------------- claims on initiate
Done ==
    pc = "done"

\* the candidates the conforming responder supports, as indexes from 0
SupportedIndexes ==
    {k \in 0 .. Len(protocols) - 1 : protocols[k + 1] \in peer.supported}

\* the decoded lines are the version string, "na" for each of rounds 0..k-1,
\* none of them the candidate of its round, and the candidate of round k
SelectedRun(k) ==
    /\ Len(lines) = k + 2
    /\ lines[1] = MULTISTREAM_PROTOCOL
    /\ \A j \in 0 .. k - 1 : lines[j + 2] = NA /\ protocols[j + 1] # NA
    /\ lines[k + 2] = protocols[k + 1]

RECURSIVE DecodeAll(_)
\* the lines a byte stream holds, decoded one after the other
DecodeAll(stream) ==
    LET r == deserialise_varint_line(stream)
    IN  IF stream = <<>> \/ r.kind # "Ok" THEN <<>>
        ELSE <<r.line>> \o DecodeAll(r.rest)

\* C1: against the conforming responder, initiate on a non-empty list returns
\* Selected(i) for the smallest i whose candidate the responder supports, and
\* NoMatch when it supports none.
C1_ConformingOutcome ==
    (Done /\ peer.mode = "conforming" /\ protocols # <<>>) =>
        IF SupportedIndexes = {} THEN result = NoMatch
        ELSE \E k \in SupportedIndexes :
                /\ \A j \in SupportedIndexes : k <= j
                /\ result = Selected(k)

\* C2: initiate returns Selected(k) exactly when the decoded lines are the
\* version string, "na" (not the candidate) for rounds 0..k-1 and candidates[k]
\* for round k; k is an index of the list; and once Selected(k) is returned the
\* stream holds the version line and candidates 0..k and nothing else, for good.
C2_SelectedExactly ==
    /\ (Done /\ protocols # <<>>) =>
            \A k \in 0 .. Len(protocols) - 1 : (result = Selected(k)) <=> SelectedRun(k)
    /\ result.kind = "Selected" =>
            /\ Done
            /\ result.index \in 0 .. Len(protocols) - 1
            /\ Len(tx) = result.index + 1
            /\ DecodeAll(Flatten(tx)) =
                    <<MULTISTREAM_PROTOCOL>> \o SubSeq(protocols, 1, result.index + 1)

\* Selected(1) after a rejected first candidate, with a further candidate unsent
C2_Witness ==
    /\ result = Selected(1)
    /\ Len(protocols) = 2
    /\ lines = <<MULTISTREAM_PROTOCOL, NA, protocols[2]>>
    /\ peer.mode = "arbitrary"
    /\ Len(rx) > 0

\* C3: NoMatch is returned only after the version string was echoed and every
\* one of the len(candidates) rounds was answered with "na".
C3_NoMatchOnlyAfterAllNa ==
    result.kind = "NoMatch" =>
        /\ Done
        /\ Len(tx) = Len(protocols)
        /\ lines = <<MULTISTREAM_PROTOCOL>> \o [k \in 1 .. Len(protocols) |-> NA]

C3_Witness ==
    /\ result = NoMatch
    /\ Len(protocols) = 2
    /\ lines = <<MULTISTREAM_PROTOCOL, NA, NA>>
    /\ peer.mode = "arbitrary"

\* C4: when the first line decoded is not the version string, initiate fails
\* with UnexpectedVersion after that single read, for every candidate list,
\* also when the line is candidates[0] or "na".
C4_UnexpectedVersion ==
    (Len(lines) >= 1 /\ lines[1] # MULTISTREAM_PROTOCOL) =>
        /\ Done
        /\ result = Failed("UnexpectedVersion")
        /\ Len(lines) = 1
        /\ nreads = 1
        /\ Len(tx) = 1
        /\ Len(rxlog) - Len(rx) = Len(serialise_varint_line(<<>>, lines[1]).dst)

\* the first line was the first candidate, and more bytes wait unread
C4_Witness ==
    /\ Len(lines) = 1
    /\ lines[1] = protocols[1]
    /\ lines[1] = NA
    /\ result = Failed("UnexpectedVersion")
    /\ Len(rx) > 0

\* C5: a reply to round k that is neither candidates[k] nor "na" ends the call
\* with UnexpectedResponse, and round k+1 is never started.
C5_UnexpectedResponse ==
    \A k \in 0 .. Len(lines) - 2 :
        (lines[k + 2] # protocols[k + 1] /\ lines[k + 2] # NA) =>
            /\ Done
            /\ result = Failed("UnexpectedResponse")
            /\ Len(lines) = k + 2
            /\ nreads = k + 2
            /\ Len(tx) = k + 1

\* the reply to round 0 was the candidate of round 1
C5_Witness ==
    /\ Len(protocols) = 2
    /\ Len(lines) = 2
    /\ lines[2] = protocols[2]
    /\ lines[2] # protocols[1]
    /\ lines[2] # NA
    /\ result = Failed("UnexpectedResponse")

\* the reply to round 1 was the version string again
C5_WitnessVersion ==
    /\ Len(lines) = 3
    /\ lines[3] = MULTISTREAM_PROTOCOL
    /\ protocols[2] # MULTISTREAM_PROTOCOL
    /\ result = Failed("UnexpectedResponse")

\* C6: with an empty candidate list initiate fails with EmptyCandidateList and
\* neither writes to the stream nor reads from it.
C6_EmptyCandidateList ==
    protocols = <<>> =>
        /\ pc \in {"entry", "done"}
        /\ Done => result = Failed("EmptyCandidateList")
        /\ tx = <<>>
        /\ nreads = 0
        /\ rx = rxlog

\* the call failed while bytes of the peer wait on the stream
C6_Witness ==
    /\ protocols = <<>>
    /\ Done
    /\ result = Failed("EmptyCandidateList")
    /\ Len(rx) > 0

\* C15: the encoder emits 1 to 10 bytes, every byte but the last with the
\* continuation flag, the last without it, the first never exactly 0x80; the
\* value 0 is the single byte 0x00.
C15_EncodingShape ==
    codec.src = "encoder" =>
        LET b == codec.input
        IN  /\ Len(b) >= 1
            /\ Len(b) <= VarintMaxBytes
            /\ \A k \in 1 .. Len(b) - 1 : b[k] >= ContFlag
            /\ b[Len(b)] < ContFlag
            /\ b[1] # ContFlag
            /\ codec.value = U64Zero => b = <<0>>

\* a value that takes all ten bytes was encoded
C15_Witness ==
    /\ codec.src = "encoder"
    /\ codec.value = U64Ones(U64Bits)
    /\ Len(codec.input) = VarintMaxBytes
    /\ codec.input[1] = ContFlag + 1

\* the value 0 was encoded
C15_WitnessZero ==
    /\ codec.src = "encoder"
    /\ codec.value = U64Zero
    /\ codec.input = <<0>>


\* ------------------------------------------------------- write/read claims
\* the bytes of one framed line
Framed(line) ==
    serialise_varint_line(<<>>, line).dst

RECURSIVE EncodeAll(_)
\* the bytes of lines framed one after the other
EncodeAll(ls) ==
    IF ls = <<>> THEN <<>> ELSE Framed(Head(ls)) \o EncodeAll(Tail(ls))

\* the rounds whose write has been issued
RoundsStarted ==
    IF pc \in {"entry", "write"} \/ result = Failed("EmptyCandidateList") THEN i ELSE i + 1

\* the bytes taken off the stream by the reads made so far
Consumed ==
    Len(rxlog) - Len(rx)

\* C12: the version line goes out once, in the one write that also holds
\* candidates[0]; the write of every later round holds the framed line of its
\* candidate and nothing else; there is one write per round started, and the
\* buffer is empty when a round after the first starts.
C12_WriteBuffers ==
    /\ \A k \in 1 .. Len(tx) :
          /\ tx[k] = IF k = 1 THEN Framed(MULTISTREAM_PROTOCOL) \o Framed(protocols[1])
                     ELSE Framed(protocols[k])
          /\ DecodeAll(tx[k]) = IF k = 1 THEN <<MULTISTREAM_PROTOCOL, protocols[1]>>
                                ELSE <<protocols[k]>>
    /\ nwrites = RoundsStarted
    /\ Len(tx) <= nwrites
    /\ nwrites <= Len(tx) + 1
    /\ (pc = "write" /\ i > 0) => handshake_message = <<>>
    /\ (pc = "write" /\ i = 0) => handshake_message = Framed(MULTISTREAM_PROTOCOL)

C12_Witness ==
    /\ result = NoMatch
    /\ Len(protocols) = 2
    /\ Len(tx) = 2
    /\ nwrites = 2
    /\ tx[2] = Framed(protocols[2])

\* C13: the proposal of a later round is written only after the reply to the
\* round before it was read and was "na"; a read of a round comes after the
\* write of that round; only the first write holds two lines.
C13_Alternation ==
    /\ \A k \in 2 .. nwrites : Len(lines) >= k /\ lines[k] = NA
    /\ nreads >= 1 => Len(tx) >= 1
    /\ nreads <= Len(tx) + 1
    /\ \A k \in 1 .. Len(tx) : Len(DecodeAll(tx[k])) = IF k = 1 THEN 2 ELSE 1

C13_Witness ==
    /\ pc = "read_response"
    /\ i = 1
    /\ Len(tx) = 2
    /\ nreads = 2
    /\ lines = <<MULTISTREAM_PROTOCOL, NA>>

\* C14: a failed read or write makes the result of the call a failure, and
\* once the result is a failure the call makes no further read or write and
\* the result stays what it is.
C14_FailureTerminal ==
    /\ [](/\ nreads > Len(lines) => (result.kind = "Err" /\ pc = "done")
          /\ nwrites > Len(tx) => (result = Failed("Io") /\ pc = "done")
          /\ result.kind = "Err" => pc = "done")
    /\ [][/\ (nreads' > nreads /\ Len(lines') = Len(lines)) =>
                 (result'.kind = "Err" /\ deserialise_varint_line(rx).kind # "Ok")
          /\ result.kind = "Err" =>
                 /\ result' = result
                 /\ tx' = tx
                 /\ nwrites' = nwrites
                 /\ nreads' = nreads
                 /\ Len(rxlog') - Len(rx') = Consumed]_vars

C14_Witness ==
    /\ result = Failed("Io")
    /\ closed
    /\ nreads = 2
    /\ lines = <<MULTISTREAM_PROTOCOL>>
    /\ rxlog = Framed(MULTISTREAM_PROTOCOL) \o <<3, 97>>

\* C18: when the call returns Selected or NoMatch, every read it made gave a
\* line, the version echo and one reply per round; and as long as every read
\* gave a line, what was taken off the stream is the framed lines decoded, and
\* what the peer sent behind them is still on the stream.
C18_ExactConsumption ==
    /\ result.kind \in {"Selected", "NoMatch"} =>
           (Len(lines) = i + 2 /\ nreads = Len(lines))
    /\ nreads = Len(lines) =>
           (rxlog = EncodeAll(lines) \o rx /\ Consumed = Len(EncodeAll(lines)))

C18_Witness ==
    /\ result = Selected(0)
    /\ peer.mode = "arbitrary"
    /\ rx = Framed(ProtoB)
    /\ rxlog = (Framed(MULTISTREAM_PROTOCOL) \o Framed(protocols[1])) \o Framed(ProtoB)


\* C19: with the call polled and the responder delivering what the call waits
\* for, the call ends in Selected, NoMatch or Failed, having started at most
\* len(candidates) rounds and decoded at most len(candidates) + 1 lines.
C19_Terminates ==
    /\ <>[](pc = "done" /\ result.kind \in {"Selected", "NoMatch", "Err"})
    /\ [](/\ RoundsStarted <= Len(protocols)
          /\ nwrites <= Len(protocols)
          /\ Len(lines) <= Len(protocols) + 1)

C19_Witness ==
    /\ pc = "done"
    /\ result = NoMatch
    /\ Len(protocols) = MaxCandidates
    /\ nwrites = Len(protocols)
    /\ Len(lines) = Len(protocols) + 1

\* ------------------------------------------------------- line codec claims
\* C11: a line decodes to the string that was encoded and the stream is left
\* immediately after the bytes appended for it; two lines encoded back to back
\* decode in order.
C11_LineRoundTrip ==
    codec.src = "encoder" =>
        \A k \in 1 .. Len(codec.results) :
            k <= Len(codec.encoded) =>
                /\ codec.results[k].kind = "Ok"
                /\ codec.results[k].line = codec.encoded[k]
                /\ codec.results[k].rest = SubSeqFrom(codec.buf, codec.ends[k] + 1)

C11_Witness ==
    /\ codec.src = "encoder"
    /\ codec.encoded = <<LongLine(127), <<195, 169>>>>
    /\ Len(codec.results) = 2
    /\ codec.results[1].line = LongLine(127)
    /\ codec.results[2].line = <<195, 169>>
    /\ codec.results[2].rest = <<>>

\* C16: serialise_varint_line keeps what the buffer held and puts behind it
\* the varint of the byte length plus one, the bytes of the string, and one
\* 0x0A byte.
C16_EncodeLineAppends ==
    (codec.src = "encoder" /\ codec.results = <<>>) =>
        LET line == codec.encoded[Len(codec.encoded)]
            old == Len(codec.before)
            added == SubSeqFrom(codec.buf, old + 1)
            v == deserialise_varint(added)
        IN  /\ Len(codec.buf) >= old
            /\ SubSeq(codec.buf, 1, old) = codec.before
            /\ v.kind = "Ok"
            /\ v.value = U64FromNat(Len(line) + 1)
            /\ v.rest = line \o <<Newline>>
            /\ added = serialise_varint(<<>>, U64FromNat(Len(line) + 1)) \o v.rest

C16_Witness ==
    /\ codec.src = "encoder"
    /\ codec.results = <<>>
    /\ codec.before = <<128, 0, 10>>
    /\ codec.encoded = <<LongLine(127)>>
    /\ Len(codec.buf) = 3 + 2 + 127 + 1

\* the first decoding of a frame whose length prefix decodes to a length that
\* fits: what the two statements of C17 have in common
C17_Frame(onNewline(_, _, _)) ==
    (codec.src = "peer" /\ codec.results # <<>>) =>
        LET r == codec.results[1]
            v == deserialise_varint(LineInput)
            len == U64ToNat(v.value)
        IN  (v.kind = "Ok" /\ U64IsSmall(v.value)) =>
                IF len = 0 THEN r.kind = "EmptyLine" /\ r.rest = v.rest
                ELSE IF Len(v.rest) < len THEN r.kind # "Ok"
                ELSE /\ r.rest = SubSeqFrom(v.rest, len + 1)
                     /\ IF v.rest[len] # Newline THEN r.kind = "MissingTerminator"
                        ELSE onNewline(r, v, len)

\* C17 as the specification states it: length 0 fails with EmptyLine after
\* the varint alone; otherwise the length bytes are consumed and the result is
\* MissingTerminator unless the last is 0x0A, in which case the first
\* length - 1 bytes are returned.
C17_MalformedFrames ==
    LET onNewline(r, v, len) == r.kind = "Ok" /\ r.line = SubSeq(v.rest, 1, len - 1)
    IN  C17_Frame(onNewline)

\* C17, amended: when the last byte is 0x0A, the first length - 1 bytes are
\* returned if they are well-formed UTF-8 and the call fails with InvalidUtf8
\* if they are not; no string is returned for a malformed frame.
C17_MalformedFramesUtf8 ==
    LET onNewline(r, v, len) ==
            IF IsUtf8(SubSeq(v.rest, 1, len - 1))
            THEN r.kind = "Ok" /\ r.line = SubSeq(v.rest, 1, len - 1)
            ELSE r.kind = "InvalidUtf8"
    IN  C17_Frame(onNewline)

C17_Witness ==
    /\ codec.src = "peer"
    /\ codec.buf = <<3, 97, 97, 97>>
    /\ Len(codec.results) = 1
    /\ codec.results[1].kind = "MissingTerminator"
    /\ codec.results[1].rest = <<>>

C17_WitnessEmptyLine ==
    /\ codec.src = "peer"
    /\ codec.buf = <<0, 97, 10>>
    /\ Len(codec.results) = 1
    /\ codec.results[1].kind = "EmptyLine"
    /\ codec.results[1].rest = <<97, 10>>

C17_WitnessInvalidUtf8 ==
    /\ codec.src = "peer"
    /\ codec.buf = <<2, 255, 10>>
    /\ Len(codec.results) = 1
    /\ codec.results[1].kind = "InvalidUtf8"

\* ------------------------------------------------------- try_negotiate claims
\* the handshake has been started
TlsStarted ==
    client.tls # "not_started"

\* initiate has been called for "/yamux/1.0.0"
YamuxStarted ==
    \/ client.stage \in {"negotiate_yamux", "ok"}
    \/ client.yamux_neg # NoResult
    \/ protocols = <<YAMUX_PROTOCOL>>

\* C20: the handshake starts only after the negotiation of "/tls/1.0.0" gave
\* Selected, the negotiation of "/yamux/1.0.0" starts only after a handshake
\* that ended with ALPN "libp2p", and a NoMatch of either negotiation ends
\* the flow with an error.
C20_ClientOrdering ==
    /\ (client.stage = "tls" \/ TlsStarted) => client.tls_neg = Selected(0)
    /\ client.stage = "negotiate_tls" => (protocols = <<TLS_PROTOCOL>> /\ ~TlsStarted)
    /\ YamuxStarted => (client.tls = "alpn_libp2p" /\ client.tls_neg = Selected(0))
    /\ client.tls_neg = NoMatch =>
           (client.stage = "failed" /\ client.error = "AddrNotAvailable" /\ ~TlsStarted /\ ~YamuxStarted)
    /\ client.yamux_neg = NoMatch => (client.stage = "failed" /\ client.error = "AddrNotAvailable")
    /\ client.stage = "ok" => client.yamux_neg = Selected(0)
    /\ client.stage \in {"failed", "ok"} => pc \in {"idle", "done"}

C20_Witness ==
    /\ client.stage = "ok"
    /\ client.tls_neg = Selected(0)
    /\ client.tls = "alpn_libp2p"
    /\ client.yamux_neg = Selected(0)

C20_WitnessNoMatch ==
    /\ client.stage = "failed"
    /\ client.tls_neg = Selected(0)
    /\ client.yamux_neg = NoMatch
    /\ client.error = "AddrNotAvailable"

====
